---- MODULE Spec2Model ----
(***************************************************************************)
(* A model of parrot's interactive session engine: the REPL dispatch of    *)
(* src/src/driver/mod.rs (Context::repl and its execute_* handlers), the   *)
(* reconciliation engine (run_snapshot, update_snapshot), the View it      *)
(* drives and the snapshot store it persists to.                           *)
(*                                                                         *)
(* Every handler is one action.  A handler records what it did, in order,  *)
(* in the variable log (subprocess executions, terminal writes, RefCell    *)
(* borrows and releases, store writes, return values), so that properties  *)
(* about the order of effects inside one handler are state predicates.     *)
(***************************************************************************)
EXTENDS Integers, Sequences, FiniteSets, TLC

VARIABLES
    pc,          \* "cli", "prompt" in the REPL loop, "exit", "panicked", "aborted" (ended by unwrap_log)
    snaps,       \* the in-memory collection: sequence of Snapshot records (shared handles)
    filters,     \* View: the filter stack
    visible,     \* View: the visible sequence, indices into snaps
    cursor,      \* View: None or Some(i), i a 0-based index into visible
    store,       \* what the DataManager has persisted: [meta, data]
    terminal,    \* "restored" (raw mode, prompt drawn) or "suspended"
    log,         \* effects of the last handler, in order
    edits,       \* number of edit commands so far
    emptyIsNone, \* whether util::to_snapshot_data maps an empty body to None
    stdin        \* the lines standard input still holds for binary_qestion

vars == <<pc, snaps, filters, visible, cursor, store, terminal, log, edits, emptyIsNone, stdin>>

(***************************************************************************)
(* Bounds of the model.                                                    *)
(***************************************************************************)
MaxByte == 2      \* bytes of a captured stream are drawn from 1..MaxByte
MaxCode == 1      \* exit codes are drawn from 0..MaxCode
MaxFilters == 1   \* the filter stack holds at most this many predicates
MaxEdits == 1     \* a session runs at most this many edit commands
MaxLines == 2     \* standard input holds at most this many lines

(***************************************************************************)
(* Rust's Option<T>: None is the empty sequence, Some(x) a singleton.      *)
(***************************************************************************)
None == <<>>
Some(x) == <<x>>

Bodies == {<<>>} \cup {<<b>> : b \in 1..MaxByte}
Codes == {None} \cup {Some(c) : c \in 0..MaxCode}

Ev(k, s, v) == [kind |-> k, snap |-> s, val |-> v]

(***************************************************************************)
(* cmd::execute: the fresh (stdout, stderr, exit code) of a command.  The  *)
(* command "c1" may produce anything; "c2" and "c3" are commands with a    *)
(* few possible outcomes.                                                  *)
(***************************************************************************)
Output(out, err, code) == [stdout |-> out, stderr |-> err, code |-> code]

Results(cmd) ==
    CASE cmd = "c1" -> {Output(o, e, c) : o \in Bodies, e \in Bodies, c \in Codes}
      [] cmd = "c2" -> {Output(<<1>>, <<>>, Some(0)), Output(<<>>, <<1>>, None)}
      [] OTHER      -> {Output(<<>>, <<>>, Some(0)), Output(<<>>, <<>>, Some(1))}

\* Err(error) of cmd::execute: the shell could not be spawned.
ExecutionError == [message |-> "Unable to execute the command"]
IsErr(result) == "message" \in DOMAIN result

\* error::unwrap_log on Err(error): the error is logged and the process ends.
\* Its callers use what it returns as the plain value, and Context::run and
\* Context::repl unwrap the store's snapshots with it at startup.
unwrap_log(i, error) == [kind |-> "unwrap_log", snap |-> i, val |-> error.message]

\* One fresh result for every snapshot of the set S of indices.
ResultsFor(ss, S) ==
    {f \in [S -> UNION {Results(ss[i].cmd) : i \in S}] :
        \A i \in S : f[i] \in Results(ss[i].cmd)}

(***************************************************************************)
(* util::to_snapshot_data(body, name, extension): the named blob of a      *)
(* stream.                                                                 *)
(***************************************************************************)
Blob(name, ext, body) == [name |-> name, extension |-> ext, body |-> body]

to_snapshot_data(body, name, ext, emptyNone) ==
    IF emptyNone /\ body = <<>> THEN None ELSE Some(Blob(name, ext, body))

(***************************************************************************)
(* util::normalize_name: lowercase, whitespace to separator.  Names are    *)
(* whole strings here, so the function is given by its value on each name  *)
(* the model uses that is not in normalized form.                          *)
(***************************************************************************)
normalize_name(name) ==
    CASE name = "New Name" -> "new-name"
      [] name = "B" -> "b"
      [] OTHER -> name

(***************************************************************************)
(* Context::run_snapshot.  i is the index of the snapshot in the           *)
(* collection, result the outcome of cmd::execute(&snap.cmd).              *)
(* run_report is its second half (lines 218-241): the comparison with the  *)
(* stored bodies old_stdout and old_stderr, the report and the verdict.    *)
(***************************************************************************)
run_report(snap, i, result, old_stdout, old_stderr, code_eq) ==
    LET stdout_eq == result.stdout = old_stdout
        stderr_eq == result.stderr = old_stderr
        failed == ~stdout_eq \/ ~stderr_eq \/ ~code_eq
        status == IF failed THEN "Failed" ELSE "Passed"
        out ==
            <<Ev("exec", i, result)>>
            \o (IF failed
                THEN <<Ev("sep", i, <<snap.name, "Top">>),
                       Ev("summary", i, <<snap.description, snap.cmd, snap.exit_code>>)>>
                ELSE <<>>)
            \o (IF result.stdout # old_stdout
                THEN <<Ev("sep", i, <<"stdout", "Middle">>),
                       Ev("diff", i, <<"stdout", old_stdout, result.stdout>>)>>
                ELSE <<>>)
            \o (IF result.stderr # old_stderr
                THEN <<Ev("sep", i, <<"stderr", "Middle">>),
                       Ev("diff", i, <<"stderr", old_stderr, result.stderr>>)>>
                ELSE <<>>)
            \o (IF failed THEN <<Ev("sep", i, <<"", "Bottom">>)>> ELSE <<>>)
            \o <<Ev("status", i, status), Ev("run_ret", i, ~failed)>>
    IN  [snap |-> [snap EXCEPT !.status = status], log |-> out, ret |-> ~failed]

\* Faulty variant: the exit code is not compared.
run_snapshot_ignoring_code(snap, i, result) ==
    run_report(snap, i, result,
               IF snap.stdout # None THEN snap.stdout[1].body ELSE <<>>,
               IF snap.stderr # None THEN snap.stderr[1].body ELSE <<>>,
               TRUE)

\* Faulty variant: an absent stored stream is not compared at all.
run_snapshot_skipping_absent(snap, i, result) ==
    run_report(snap, i, result,
               IF snap.stdout # None THEN snap.stdout[1].body ELSE result.stdout,
               IF snap.stderr # None THEN snap.stderr[1].body ELSE result.stderr,
               snap.exit_code = result.code)

\* Faulty variant: a failing run takes the fresh exit code as the stored one.
run_snapshot_accepting_code(snap, i, result) ==
    LET r == run_report(snap, i, result,
                        IF snap.stdout # None THEN snap.stdout[1].body ELSE <<>>,
                        IF snap.stderr # None THEN snap.stderr[1].body ELSE <<>>,
                        snap.exit_code = result.code)
    IN  [r EXCEPT !.snap.exit_code = result.code]

\* Faulty variant: the frame and the summary are drawn only when a stream differs.
run_snapshot_unframed_code(snap, i, result) ==
    LET old_stdout == IF snap.stdout # None THEN snap.stdout[1].body ELSE <<>>
        old_stderr == IF snap.stderr # None THEN snap.stderr[1].body ELSE <<>>
        r == run_report(snap, i, result, old_stdout, old_stderr,
                        snap.exit_code = result.code)
    IN  IF result.stdout = old_stdout /\ result.stderr = old_stderr
        THEN [r EXCEPT !.log = SelectSeq(r.log,
                                  LAMBDA e : e.kind \notin {"sep", "summary"})]
        ELSE r

run_snapshot(snap, i, result) ==
    IF IsErr(result)
    THEN [snap |-> snap, log |-> <<unwrap_log(i, result)>>, ret |-> FALSE]
    ELSE LET empty_body == <<>>
             old_stdout == IF snap.stdout # None THEN snap.stdout[1].body ELSE empty_body
             old_stderr == IF snap.stderr # None THEN snap.stderr[1].body ELSE empty_body
             code_eq == snap.exit_code = result.code
         IN  run_report(snap, i, result, old_stdout, old_stderr, code_eq)

(***************************************************************************)
(* Context::update_snapshot.                                               *)
(***************************************************************************)
UpdateLog(i, result, has_changed) ==
    <<Ev("exec", i, result), Ev("status", i, "Passed"), Ev("update_ret", i, has_changed)>>

\* Faulty variant: a replaced stderr does not count as a change.
update_snapshot_uncounted_stderr(snap, i, result, emptyNone) ==
    LET new_stdout == to_snapshot_data(result.stdout, snap.name, ".out", emptyNone)
        new_stderr == to_snapshot_data(result.stderr, snap.name, ".err", emptyNone)
        has_changed == snap.exit_code # result.code \/ snap.stdout # new_stdout
    IN  [snap |-> [snap EXCEPT !.exit_code = result.code, !.stdout = new_stdout,
                               !.stderr = new_stderr, !.status = "Passed"],
         log |-> UpdateLog(i, result, has_changed),
         ret |-> has_changed]

\* Faulty variant: stdout is rewritten, and counted as changed, on every update.
update_snapshot_rewriting_stdout(snap, i, result, emptyNone) ==
    LET new_stdout == to_snapshot_data(result.stdout, snap.name, ".out", emptyNone)
        new_stderr == to_snapshot_data(result.stderr, snap.name, ".err", emptyNone)
    IN  [snap |-> [snap EXCEPT !.exit_code = result.code, !.stdout = new_stdout,
                               !.stderr = new_stderr, !.status = "Passed"],
         log |-> UpdateLog(i, result, TRUE),
         ret |-> TRUE]

\* Faulty variant: a differing exit code is counted as a change but not stored.
update_snapshot_dropping_code(snap, i, result, emptyNone) ==
    LET new_stdout == to_snapshot_data(result.stdout, snap.name, ".out", emptyNone)
        new_stderr == to_snapshot_data(result.stderr, snap.name, ".err", emptyNone)
        has_changed == snap.exit_code # result.code \/ snap.stdout # new_stdout
                       \/ snap.stderr # new_stderr
    IN  [snap |-> [snap EXCEPT !.stdout = new_stdout, !.stderr = new_stderr,
                               !.status = "Passed"],
         log |-> UpdateLog(i, result, has_changed),
         ret |-> has_changed]

update_snapshot(snap, i, result, emptyNone) ==
    IF IsErr(result)
    THEN [snap |-> snap, log |-> <<unwrap_log(i, result)>>, ret |-> FALSE]
    ELSE LET new_stdout == to_snapshot_data(result.stdout, snap.name, ".out", emptyNone)
             new_stderr == to_snapshot_data(result.stderr, snap.name, ".err", emptyNone)
             c1 == snap.exit_code # result.code
             c2 == snap.stdout # new_stdout
             c3 == snap.stderr # new_stderr
             has_changed == c1 \/ c2 \/ c3
             s1 == IF c1 THEN [snap EXCEPT !.exit_code = result.code] ELSE snap
             s2 == IF c2 THEN [s1 EXCEPT !.stdout = new_stdout] ELSE s1
             s3 == IF c3 THEN [s2 EXCEPT !.stderr = new_stderr] ELSE s2
         IN  [snap |-> [s3 EXCEPT !.status = "Passed"],
              log |-> UpdateLog(i, result, has_changed),
              ret |-> has_changed]

(***************************************************************************)
(* RefCell discipline and the effects of a handler, read off its sequence  *)
(* of events.                                                              *)
(***************************************************************************)
\* What the store holds of a snapshot: its streams, and its entry in the index.
Content(snap) == [stdout |-> snap.stdout, stderr |-> snap.stderr]
Meta(snap) == [name |-> snap.name, description |-> snap.description,
               tags |-> snap.tags, exit_code |-> snap.exit_code]
MetaIndex(ss) == [i \in 1..Len(ss) |-> Meta(ss[i])]

\* The snapshots mutably borrowed after the first n events of lg.
Outstanding(lg, n) ==
    {lg[j].snap : j \in {j \in 1..n :
        /\ lg[j].kind = "borrow_mut"
        /\ \A k \in (j + 1)..n : ~(lg[k].kind = "release" /\ lg[k].snap = lg[j].snap)}}

\* The effects of the events of lg from event n on, in order, on
\* m = [held, store, terminal, panic]: held are the snapshots mutably borrowed,
\* panic the index of the event that panicked (0 if none).  An event panics
\* (BorrowError / BorrowMutError) when it borrows a snapshot that is mutably
\* borrowed, or when it is persist_metadata, which reads every snapshot (see
\* the comments of execute_edit and update_selected), under a mutable borrow.
\* unwrap_log of an error ends the process there as well.
RECURSIVE Execute(_, _, _)
Execute(lg, n, m) ==
    IF n > Len(lg) THEN m
    ELSE LET e == lg[n]
         IN  IF \/ e.kind \in {"borrow_mut", "borrow"} /\ e.snap \in m.held
                \/ e.kind = "persist_metadata" /\ m.held # {}
                \/ e.kind = "unwrap_log"
             THEN [m EXCEPT !.panic = n]
             ELSE Execute(lg, n + 1,
                    CASE e.kind = "borrow_mut" -> [m EXCEPT !.held = @ \cup {e.snap}]
                      [] e.kind = "release" -> [m EXCEPT !.held = @ \ {e.snap}]
                      [] e.kind = "persist_data" -> [m EXCEPT !.store.data[e.snap] = e.val]
                      [] e.kind = "persist_metadata" -> [m EXCEPT !.store.meta = e.val]
                      [] e.kind = "suspend" -> [m EXCEPT !.terminal = "suspended"]
                      [] e.kind = "restore" -> [m EXCEPT !.terminal = "restored"]
                      [] e.kind = "add_snapshot" ->
                            [m EXCEPT !.store = [meta |-> Append(@.meta, Meta(e.val)),
                                                 data |-> Append(@.data, Content(e.val))]]
                      [] OTHER -> m)

\* What of lg is executed when its event p panics or ends the process (all of
\* it when p = 0).
Effective(lg, p) ==
    IF p = 0 THEN lg
    ELSE IF lg[p].kind = "unwrap_log" THEN SubSeq(lg, 1, p)
    ELSE SubSeq(lg, 1, p - 1) \o <<Ev("panic", lg[p].snap, lg[p].kind)>>

\* Where the handler is after lg, whose event p panicked or ended the process.
PcAfter(lg, p, nextPc) ==
    IF p = 0 THEN nextPc
    ELSE IF lg[p].kind = "unwrap_log" THEN "aborted" ELSE "panicked"

persist_snapshot_data(snap, i) == Ev("persist_data", i, Content(snap))
persist_metadata(ss) == Ev("persist_metadata", 0, MetaIndex(ss))

\* A handler that was given input, computed the collection ss and had the
\* effects lg ends here.  The log starts with the input.
Effects(input, ss, lg, nextPc) ==
    \E done \in {lg} :
    \E m \in {Execute(done, 1, [held |-> {}, store |-> store, terminal |-> terminal, panic |-> 0])} :
        /\ snaps' = ss
        /\ log' = <<Ev("input", 0, input)>> \o Effective(done, m.panic)
        /\ store' = m.store
        /\ terminal' = m.terminal
        /\ pc' = PcAfter(done, m.panic, nextPc)
        /\ UNCHANGED emptyIsNone

\* The same for a handler that reads no line from standard input.
Commit(input, ss, lg, nextPc) ==
    /\ Effects(input, ss, lg, nextPc)
    /\ UNCHANGED stdin

(***************************************************************************)
(* View (driver/repl.rs).                                                  *)
(***************************************************************************)
StatusOf(word) ==
    CASE word = "failed" -> "Failed"
      [] word = "passed" -> "Passed"
      [] OTHER -> "Unknown"

Matches(snap, pred) ==
    CASE pred.key = "tag" -> \E k \in 1..Len(snap.tags) : snap.tags[k] = pred.val
      [] pred.key = "status" -> snap.status = StatusOf(pred.val)
      [] OTHER -> TRUE

VisibleOf(ss, fs) ==
    SelectSeq([i \in 1..Len(ss) |-> i],
              LAMBDA i : \A k \in 1..Len(fs) : Matches(ss[i], fs[k]))

\* View::get_selected / get_selected_mut: the index of the selected snapshot, 0 if none.
get_selected(vis, cur) == IF cur = None THEN 0 ELSE vis[cur[1] + 1]

PositionOf(vis, i) == CHOOSE k \in 1..Len(vis) : vis[k] = i

apply_filter(ss, fs, vis, cur, args) ==
    LET fs1 == fs \o args
        vis1 == VisibleOf(ss, fs1)
        sel == get_selected(vis, cur)
        cur1 == IF vis1 = <<>> THEN None
                ELSE IF sel # 0 /\ \E k \in 1..Len(vis1) : vis1[k] = sel
                     THEN Some(PositionOf(vis1, sel) - 1)
                     ELSE Some(0)
    IN  [filters |-> fs1, visible |-> vis1, cursor |-> cur1]

clear_filters(ss) ==
    [filters |-> <<>>, visible |-> [i \in 1..Len(ss) |-> i],
     cursor |-> IF Len(ss) > 0 THEN Some(0) ELSE None]

up(cur) == IF cur = None THEN None ELSE IF cur[1] > 0 THEN Some(cur[1] - 1) ELSE cur

down(vis, cur) ==
    IF cur = None THEN None ELSE IF cur[1] + 1 < Len(vis) THEN Some(cur[1] + 1) ELSE cur

(***************************************************************************)
(* Scanner and Parser (driver/scanner.rs, driver/parser.rs).  A line is    *)
(* its sequence of tokens; a token key:value has a key, a plain word has   *)
(* the empty key.                                                          *)
(***************************************************************************)
W(word) == [key |-> "", val |-> word]
KV(k, v) == [key |-> k, val |-> v]

Ok(kind, arg) == [ok |-> TRUE, kind |-> kind, arg |-> arg, message |-> ""]
Err(message) == [ok |-> FALSE, kind |-> "", arg |-> <<>>, message |-> message]

ParseTarget(kind, toks) ==
    IF Len(toks) = 1 THEN Ok(kind, "Selected")
    ELSE IF Len(toks) = 2 /\ toks[2] = W("all") THEN Ok(kind, "All")
    ELSE IF Len(toks) = 2 /\ toks[2] \in {W("sel"), W("selected")} THEN Ok(kind, "Selected")
    ELSE Err("invalid target")

ParseFilter(toks) ==
    IF Len(toks) = 1 THEN Err("filter expects a predicate")
    ELSE IF \E k \in 2..Len(toks) : toks[k].key \notin {"tag", "status", "name", ""}
         THEN Err("unknown filter key")
         ELSE Ok("Filter", Tail(toks))

Parse(toks) ==
    LET first == toks[1]
    IN  IF first.key # "" THEN Err("unknown command")
        ELSE CASE first.val \in {"quit", "q"} -> Ok("Quit", <<>>)
               [] first.val \in {"help", "h"} -> Ok("Help", <<>>)
               [] first.val \in {"edit", "e"} -> Ok("Edit", <<>>)
               [] first.val = "clear" -> Ok("Clear", <<>>)
               [] first.val = "filter" -> ParseFilter(toks)
               [] first.val = "run" -> ParseTarget("Run", toks)
               [] first.val = "show" -> ParseTarget("Show", toks)
               [] first.val = "update" -> ParseTarget("Update", toks)
               [] OTHER -> Err("unknown command")

\* The lines typed at the prompt.
Lines ==
    {<<W("quit")>>, <<W("q")>>, <<W("help")>>, <<W("edit")>>, <<W("e")>>, <<W("clear")>>,
     <<W("filter"), KV("status", "failed")>>,
     <<W("filter")>>, <<W("filter"), KV("color", "red")>>,
     <<W("run")>>, <<W("run"), W("all")>>, <<W("run"), W("sel")>>, <<W("run"), W("bogus")>>,
     <<W("show")>>, <<W("show"), W("all")>>,
     <<W("update")>>, <<W("update"), W("all")>>, <<W("update"), W("selected")>>,
     <<W("r")>>, <<W("bogus")>>, <<KV("tag", "t")>>}

(***************************************************************************)
(* editor::open_snap: what the external editor hands back.                 *)
(***************************************************************************)
EditOk(name, description, tags) ==
    [ok |-> TRUE, name |-> name, description |-> description, tags |-> tags, message |-> ""]
EditErr(message) ==
    [ok |-> FALSE, name |-> None, description |-> None, tags |-> <<>>, message |-> message]

EditResults ==
    {EditErr("editor failed"),
     EditOk(None, None, <<>>),
     EditOk(None, None, <<"t">>),
     EditOk(Some("New Name"), Some("d"), <<"t">>)}

Suspend == Ev("suspend", 0, <<>>)
Restore == Ev("restore", 0, <<>>)
Writeln(message) == Ev("writeln", 0, message)
BorrowMut(i) == Ev("borrow_mut", i, <<>>)
Release(i) == Ev("release", i, <<>>)
Borrow(i) == Ev("borrow", i, <<>>)
Unborrow(i) == Ev("unborrow", i, <<>>)

(***************************************************************************)
(* Context::run_view: one iteration of the loop, and the loop.             *)
(***************************************************************************)
\* Faulty variant: success && self.run_snapshot(..), which stops running at the first failure.
run_view_step_short_circuit(acc, i, result) ==
    IF acc.success
    THEN LET r == run_snapshot(acc.snaps[i], i, result)
         IN  [snaps |-> [acc.snaps EXCEPT ![i] = r.snap],
              log |-> acc.log \o <<BorrowMut(i)>> \o r.log \o <<Release(i)>>,
              success |-> r.ret]
    ELSE acc

run_view_step(acc, i, result) ==
    LET r == run_snapshot(acc.snaps[i], i, result)
    IN  [snaps |-> [acc.snaps EXCEPT ![i] = r.snap],
         log |-> acc.log \o <<BorrowMut(i)>> \o r.log \o <<Release(i)>>,
         success |-> acc.success /\ r.ret]

RECURSIVE run_view_loop(_, _, _)
run_view_loop(acc, vis, res) ==
    IF vis = <<>> THEN acc
    ELSE run_view_loop(run_view_step(acc, Head(vis), res[Head(vis)]), Tail(vis), res)

run_view(ss, vis, res) ==
    run_view_loop([snaps |-> ss, log |-> <<>>, success |-> TRUE], vis, res)

(***************************************************************************)
(* Context::execute_run.                                                   *)
(***************************************************************************)
\* Faulty variant: Run Selected without a selected snapshot counts as a failure.
execute_run_failing_unselected(ss, vis, cur, target, res) ==
    LET sel == get_selected(vis, cur)
        r == IF target = "All" THEN run_view(ss, vis, res)
             ELSE IF sel # 0
                  THEN LET one == run_snapshot(ss[sel], sel, res[sel])
                       IN  [snaps |-> [ss EXCEPT ![sel] = one.snap],
                            log |-> <<BorrowMut(sel)>> \o one.log \o <<Release(sel)>>,
                            success |-> one.ret]
                  ELSE [snaps |-> ss, log |-> <<>>, success |-> FALSE]
    IN  [snaps |-> r.snaps,
         log |-> <<Suspend>> \o r.log
                 \o <<Ev(IF r.success THEN "success" ELSE "failure", 0, <<>>), Restore>>]

execute_run(ss, vis, cur, target, res) ==
    LET sel == get_selected(vis, cur)
        r == IF target = "All" THEN run_view(ss, vis, res)
             ELSE IF sel # 0
                  THEN LET one == run_snapshot(ss[sel], sel, res[sel])
                       IN  [snaps |-> [ss EXCEPT ![sel] = one.snap],
                            log |-> <<BorrowMut(sel)>> \o one.log \o <<Release(sel)>>,
                            success |-> one.ret]
                  ELSE [snaps |-> ss, log |-> <<>>, success |-> TRUE]
    IN  [snaps |-> r.snaps,
         log |-> <<Suspend>> \o r.log
                 \o <<Ev(IF r.success THEN "success" ELSE "failure", 0, <<>>), Restore>>]

(***************************************************************************)
(* Context::run, the run subcommand.                                       *)
(***************************************************************************)
run(ss, res) ==
    LET view == clear_filters(ss)
        r == run_view(ss, view.visible, res)
    IN  [snaps |-> r.snaps,
         log |-> r.log \o <<Ev(IF r.success THEN "success" ELSE "failure", 0, <<>>),
                            Ev("return", 0, r.success)>>]

(***************************************************************************)
(* Context::update_view, Context::update_selected, Context::execute_update.*)
(***************************************************************************)
\* Faulty variant: every snapshot of the view is counted, changed or not.
update_view_step_counting_all(acc, i, result, emptyNone) ==
    LET r == update_snapshot(acc.snaps[i], i, result, emptyNone)
    IN  [snaps |-> [acc.snaps EXCEPT ![i] = r.snap],
         log |-> acc.log \o <<BorrowMut(i)>> \o r.log
                 \o (IF r.ret THEN <<persist_snapshot_data(r.snap, i)>> ELSE <<>>)
                 \o <<Release(i)>>,
         count |-> acc.count + 1]

update_view_step(acc, i, result, emptyNone) ==
    LET r == update_snapshot(acc.snaps[i], i, result, emptyNone)
    IN  [snaps |-> [acc.snaps EXCEPT ![i] = r.snap],
         log |-> acc.log \o <<BorrowMut(i)>> \o r.log
                 \o (IF r.ret THEN <<persist_snapshot_data(r.snap, i)>> ELSE <<>>)
                 \o <<Release(i)>>,
         count |-> IF r.ret THEN acc.count + 1 ELSE acc.count]

RECURSIVE update_view_loop(_, _, _, _)
update_view_loop(acc, vis, res, emptyNone) ==
    IF vis = <<>> THEN acc
    ELSE update_view_loop(update_view_step(acc, Head(vis), res[Head(vis)], emptyNone),
                          Tail(vis), res, emptyNone)

\* format!("Updated {} snapshots.", count)
UpdatedMessage(count) == "Updated " \o ToString(count) \o " snapshots."

update_view(ss, vis, res, emptyNone) ==
    LET r == update_view_loop([snaps |-> ss, log |-> <<>>, count |-> 0], vis, res, emptyNone)
    IN  [snaps |-> r.snaps,
         log |-> r.log
                 \o (IF r.count > 0
                     THEN <<IF r.count = 1 THEN Writeln("Updated 1 snapshot.")
                            ELSE Writeln(UpdatedMessage(r.count)),
                            persist_metadata(r.snaps)>>
                     ELSE <<Writeln("Nothing to do.")>>)]

\* Faulty variant: the mutable borrow is still held when the metadata is persisted.
update_selected_holding_borrow(ss, vis, cur, res, emptyNone) ==
    LET sel == get_selected(vis, cur)
    IN  IF sel # 0
        THEN LET r == update_snapshot(ss[sel], sel, res[sel], emptyNone)
                 ss1 == [ss EXCEPT ![sel] = r.snap]
             IN  [snaps |-> ss1,
                  log |-> <<BorrowMut(sel)>> \o r.log
                          \o (IF r.ret
                              THEN <<persist_snapshot_data(r.snap, sel), persist_metadata(ss1),
                                     Writeln("Updated 1 snapshot."), Release(sel)>>
                              ELSE <<Writeln("Nothing to do."), Release(sel)>>)]
        ELSE [snaps |-> ss, log |-> <<Writeln("No snapshot to update.")>>]

update_selected(ss, vis, cur, res, emptyNone) ==
    LET sel == get_selected(vis, cur)
    IN  IF sel # 0
        THEN LET r == update_snapshot(ss[sel], sel, res[sel], emptyNone)
                 ss1 == [ss EXCEPT ![sel] = r.snap]
             IN  [snaps |-> ss1,
                  log |-> <<BorrowMut(sel)>> \o r.log
                          \o (IF r.ret
                              THEN <<persist_snapshot_data(r.snap, sel), Release(sel),
                                     persist_metadata(ss1), Writeln("Updated 1 snapshot.")>>
                              ELSE <<Writeln("Nothing to do."), Release(sel)>>)]
        ELSE [snaps |-> ss, log |-> <<Writeln("No snapshot to update.")>>]

execute_update(ss, vis, cur, target, res, emptyNone) ==
    LET r == IF target = "All" THEN update_view(ss, vis, res, emptyNone)
             ELSE update_selected(ss, vis, cur, res, emptyNone)
    IN  [snaps |-> r.snaps, log |-> <<Suspend>> \o r.log \o <<Restore>>]

(***************************************************************************)
(* Context::edit_snapshot, Context::execute_edit.                          *)
(***************************************************************************)
\* Faulty variant: an edit that changes the snapshot forgets its status.
edit_snapshot_resetting_status(snap, i, edit) ==
    IF edit.ok
    THEN LET n == edit.name # None /\ edit.name[1] # snap.name
             d == edit.description # snap.description
             s1 == IF n THEN [snap EXCEPT !.name = edit.name[1]] ELSE snap
             s2 == IF d THEN [s1 EXCEPT !.description = edit.description, !.tags = edit.tags]
                   ELSE s1
             has_changed == n \/ d
         IN  [snap |-> IF has_changed THEN [s2 EXCEPT !.status = "Unknown"] ELSE s2,
              log |-> <<Ev("editor", i, edit),
                        Writeln(IF has_changed THEN "Updated." ELSE "Nothing to change.")>>,
              ret |-> has_changed]
    ELSE [snap |-> snap,
          log |-> <<Ev("editor", i, edit), Writeln(edit.message)>>,
          ret |-> FALSE]

edit_snapshot(snap, i, edit) ==
    IF edit.ok
    THEN LET n == edit.name # None /\ edit.name[1] # snap.name
             d == edit.description # snap.description
             s1 == IF n THEN [snap EXCEPT !.name = edit.name[1]] ELSE snap
             s2 == IF d THEN [s1 EXCEPT !.description = edit.description, !.tags = edit.tags]
                   ELSE s1
             has_changed == n \/ d
         IN  [snap |-> s2,
              log |-> <<Ev("editor", i, edit),
                        Writeln(IF has_changed THEN "Updated." ELSE "Nothing to change.")>>,
              ret |-> has_changed]
    ELSE [snap |-> snap,
          log |-> <<Ev("editor", i, edit), Writeln(edit.message)>>,
          ret |-> FALSE]

execute_edit(ss, vis, cur, edit) ==
    LET sel == get_selected(vis, cur)
    IN  IF sel # 0
        THEN LET r == edit_snapshot(ss[sel], sel, edit)
                 ss1 == [ss EXCEPT ![sel] = r.snap]
             IN  [snaps |-> ss1,
                  log |-> <<Suspend, BorrowMut(sel)>> \o r.log
                          \o (IF r.ret THEN <<Release(sel), persist_metadata(ss1)>>
                              ELSE <<Release(sel)>>)
                          \o <<Restore>>]
        ELSE [snaps |-> ss, log |-> <<Suspend, Writeln("No snapshot to edit."), Restore>>]

(***************************************************************************)
(* Context::show_snapshot, Context::execute_show, Context::execute_help.   *)
(***************************************************************************)
show_snapshot(snap, i) ==
    <<Ev("sep", i, <<snap.name, "Top">>),
      Ev("summary", i, <<snap.description, snap.cmd, snap.exit_code>>)>>
    \o (IF snap.stdout # None
        THEN <<Ev("sep", i, <<"stdout", "Middle">>), Ev("boxed_write", i, snap.stdout[1].body)>>
        ELSE <<>>)
    \o (IF snap.stderr # None
        THEN <<Ev("sep", i, <<"stderr", "Middle">>), Ev("boxed_write", i, snap.stderr[1].body)>>
        ELSE <<>>)
    \o <<Ev("sep", i, <<"", "Bottom">>)>>

RECURSIVE show_view(_, _)
show_view(ss, vis) ==
    IF vis = <<>> THEN <<>>
    ELSE <<Borrow(Head(vis))>> \o show_snapshot(ss[Head(vis)], Head(vis))
         \o <<Unborrow(Head(vis))>> \o show_view(ss, Tail(vis))

execute_show(ss, vis, cur, target) ==
    LET sel == get_selected(vis, cur)
    IN  <<Suspend>>
        \o (IF target = "All" THEN show_view(ss, vis)
            ELSE IF sel # 0
                 THEN <<Borrow(sel)>> \o show_snapshot(ss[sel], sel) \o <<Unborrow(sel)>>
                 ELSE <<>>)
        \o <<Restore>>

execute_help == <<Suspend, Ev("write_help", 0, <<>>), Restore>>

(***************************************************************************)
(* main.rs, Command::Run: compares the fresh stdout with the stored        *)
(* content of each snapshot.                                               *)
(***************************************************************************)
main_run_step(acc, snap, i, result) ==
    LET content == IF snap.stdout # None THEN snap.stdout[1].body ELSE <<>>
        differs == result.stdout # content
    IN  [log |-> acc.log \o <<Ev("exec", i, result)>>
                 \o (IF differs THEN <<Ev("println", i, <<"Test failed for", snap.cmd>>)>>
                     ELSE <<>>),
         success |-> IF differs THEN FALSE ELSE acc.success]

RECURSIVE main_run_loop(_, _, _, _)
main_run_loop(acc, ss, i, res) ==
    IF i > Len(ss) THEN acc
    ELSE main_run_loop(main_run_step(acc, ss[i], i, res[i]), ss, i + 1, res)

main_run(ss, res) ==
    LET r == main_run_loop([log |-> <<>>, success |-> TRUE], ss, 1, res)
    IN  r.log \o <<Ev(IF r.success THEN "success" ELSE "failure", 0, <<>>)>>

(***************************************************************************)
(* The state after construction: the collection as DataManager loaded it   *)
(* from the store, the View of Context::repl over it.                      *)
(***************************************************************************)
Snapshot(name, cmd, description, tags, exit_code, stdout, stderr) ==
    [name |-> name, cmd |-> cmd, description |-> description, tags |-> tags,
     exit_code |-> exit_code, stdout |-> stdout, stderr |-> stderr, status |-> "Unknown"]

OptBlobs(name, ext) == {None} \cup {Some(Blob(name, ext, b)) : b \in Bodies}

StoreOf(ss) == [meta |-> MetaIndex(ss), data |-> [i \in 1..Len(ss) |-> Content(ss[i])]]

Loaded(ss, emptyNone) ==
    /\ pc = "cli"
    /\ snaps = ss
    /\ filters = clear_filters(ss).filters
    /\ visible = clear_filters(ss).visible
    /\ cursor = clear_filters(ss).cursor
    /\ store = StoreOf(ss)
    /\ terminal = "suspended"
    /\ log = <<>>
    /\ edits = 0
    /\ emptyIsNone = emptyNone

\* A store of two snapshots.  An empty stream is stored as an absent blob, which
\* is how show_snapshot and term::snap_preview treat it.
Init ==
    /\ Loaded(<<Snapshot("a", "c2", None, <<>>, Some(0), Some(Blob("a", ".out", <<1>>)), None),
                Snapshot("b", "c3", None, <<"t">>, Some(0), None, None)>>, TRUE)
    /\ stdin = <<>>

\* A store of one snapshot of the command "c1", with any stored content, under
\* either reading of to_snapshot_data.
InitEngine ==
    /\ \E code \in Codes, out \in OptBlobs("a", ".out"), err \in OptBlobs("a", ".err"),
          emptyNone \in BOOLEAN :
           Loaded(<<Snapshot("a", "c1", None, <<>>, code, out, err)>>, emptyNone)
    /\ stdin = <<>>

(***************************************************************************)
(* term::binary_qestion.  A line is the sequence of its characters, as     *)
(* read_line returns it: with its newline, and empty at end of input.      *)
(***************************************************************************)
IsSpace(c) == c \in {" ", "\n"}

Lower(c) ==
    CASE c = "Y" -> "y" [] c = "E" -> "e" [] c = "S" -> "s"
      [] c = "N" -> "n" [] c = "O" -> "o" [] OTHER -> c

RECURSIVE trim_start(_)
trim_start(line) ==
    IF line # <<>> /\ IsSpace(Head(line)) THEN trim_start(Tail(line)) ELSE line

RECURSIVE trim_end(_)
trim_end(line) ==
    IF line # <<>> /\ IsSpace(line[Len(line)])
    THEN trim_end(SubSeq(line, 1, Len(line) - 1))
    ELSE line

trim(line) == trim_end(trim_start(line))
to_lowercase(line) == [k \in 1..Len(line) |-> Lower(line[k])]

\* One iteration of the loop of binary_qestion on the line read: Some(TRUE) for
\* return Ok(true), Some(FALSE) for return Ok(false), None to ask again.
binary_qestion(line) ==
    LET buffer == to_lowercase(trim(line))
    IN  IF buffer = <<"y", "e", "s">> \/ buffer = <<"y", "e">> \/ buffer = <<"y">>
        THEN Some(TRUE)
        ELSE IF buffer = <<"n", "o">> \/ buffer = <<"n">> THEN Some(FALSE) ELSE None

\* stdin.read_line(&mut buffer): the next line, the empty string at end of input.
read_line(lines) ==
    IF lines = <<>> THEN [line |-> <<>>, rest |-> <<>>]
    ELSE [line |-> Head(lines), rest |-> Tail(lines)]

\* The lines standard input may hold.
InputLines ==
    {<<"y", "\n">>, <<"Y", "e", "s", "\n">>, <<" ", "y", "e", " ", "\n">>,
     <<"n", "\n">>, <<"N", "O">>,
     <<"\n">>, <<"y", "e", "s", "s", "\n">>, <<"y", " ", "e", "s", "\n">>}

Streams == UNION {[1..n -> InputLines] : n \in 0..MaxLines}

(***************************************************************************)
(* Context::add, from the answer to "Save this snapshot?" on.              *)
(***************************************************************************)
AddArgs(cmd, name, yes) == [cmd |-> cmd, name |-> name, yes |-> yes]

\* get_random_name()
RandomNames == {"r1", "r2"}

to_snapshot(name, description, tags, cmd, snap, emptyNone) ==
    Snapshot(name, cmd, description, tags, snap.code,
             to_snapshot_data(snap.stdout, name, ".out", emptyNone),
             to_snapshot_data(snap.stderr, name, ".err", emptyNone))

add_snapshot(ss, snapshot, before) ==
    [snaps |-> Append(ss, snapshot),
     log |-> before \o <<Ev("add_snapshot", Len(ss) + 1, snapshot)>>]

\* Lines 48-70: the name, the snapshot and its storage.  edit is what
\* editor::open_empty returns, random what get_random_name returns.
add_save(ss, args, snap, edit, random, emptyNone) ==
    IF args.name # None
    THEN add_snapshot(ss, to_snapshot(args.name[1], None, <<>>, args.cmd, snap, emptyNone), <<>>)
    ELSE IF args.yes
    THEN add_snapshot(ss, to_snapshot(random, None, <<>>, args.cmd, snap, emptyNone), <<>>)
    ELSE IF ~edit.ok
    THEN [snaps |-> ss, log |-> <<Ev("editor", 0, edit), unwrap_log(0, edit)>>]
    ELSE add_snapshot(ss,
                      to_snapshot(IF edit.name # None THEN normalize_name(edit.name[1])
                                  ELSE random,
                                  edit.description, edit.tags, args.cmd, snap, emptyNone),
                      <<Ev("editor", 0, edit)>>)

(***************************************************************************)
(* The actions: the subcommands, and one per input of the REPL loop.       *)
(***************************************************************************)
AllSnaps == 1..Len(snaps)
ViewUnchanged == UNCHANGED <<filters, visible, cursor>>
NoEdit == UNCHANGED edits

\* Context::repl up to the first prompt.
StartRepl ==
    /\ NoEdit
    /\ pc = "cli"
    /\ Commit(Ok("Repl", <<>>), snaps, <<Restore>>, "prompt")
    /\ ViewUnchanged

RunSubcommand ==
    /\ NoEdit
    /\ pc = "cli"
    /\ \E res \in ResultsFor(snaps, AllSnaps) :
          LET r == run(snaps, res) IN Commit(Ok("RunSubcommand", <<>>), r.snaps, r.log, "exit")
    /\ ViewUnchanged

MainRun ==
    /\ NoEdit
    /\ pc = "cli"
    /\ \E res \in ResultsFor(snaps, AllSnaps) :
          Commit(Ok("MainRun", <<>>), snaps, main_run(snaps, res), "exit")
    /\ ViewUnchanged

Up ==
    /\ NoEdit
    /\ pc = "prompt"
    /\ cursor' = up(cursor)
    /\ UNCHANGED <<filters, visible>>
    /\ Commit(Ok("Up", <<>>), snaps, <<>>, "prompt")

Down ==
    /\ NoEdit
    /\ pc = "prompt"
    /\ cursor' = down(visible, cursor)
    /\ UNCHANGED <<filters, visible>>
    /\ Commit(Ok("Down", <<>>), snaps, <<>>, "prompt")

QuitKey ==
    /\ NoEdit
    /\ pc = "prompt"
    /\ Commit(Ok("QuitKey", <<>>), snaps, <<Suspend>>, "exit")
    /\ ViewUnchanged

\* The scripts of the given kind that the lines parse to.
Scripts(kind) == {Parse(l) : l \in {l \in Lines : Parse(l).ok /\ Parse(l).kind = kind}}
ParseErrors == {Parse(l) : l \in {l \in Lines : ~Parse(l).ok}}

CmdQuit ==
    /\ NoEdit
    /\ pc = "prompt"
    /\ \E script \in Scripts("Quit") : Commit(script, snaps, <<Suspend>>, "exit")
    /\ ViewUnchanged

CmdHelp ==
    /\ NoEdit
    /\ pc = "prompt"
    /\ \E script \in Scripts("Help") : Commit(script, snaps, execute_help, "prompt")
    /\ ViewUnchanged

CmdEdit ==
    /\ pc = "prompt"
    /\ edits < MaxEdits
    /\ edits' = edits + 1
    /\ \E script \in Scripts("Edit"), edit \in EditResults :
          LET r == execute_edit(snaps, visible, cursor, edit)
          IN  Commit(script, r.snaps, r.log, "prompt")
    /\ ViewUnchanged

CmdClear ==
    /\ NoEdit
    /\ pc = "prompt"
    /\ \E script \in Scripts("Clear") :
          /\ filters' = clear_filters(snaps).filters
          /\ visible' = clear_filters(snaps).visible
          /\ cursor' = clear_filters(snaps).cursor
          /\ Commit(script, snaps, <<>>, "prompt")

CmdFilter ==
    /\ NoEdit
    /\ pc = "prompt"
    /\ \E script \in Scripts("Filter") :
          LET v == apply_filter(snaps, filters, visible, cursor, script.arg)
          IN  /\ Len(v.filters) <= MaxFilters
              /\ filters' = v.filters
              /\ visible' = v.visible
              /\ cursor' = v.cursor
              /\ Commit(script, snaps, <<>>, "prompt")

\* The snapshots whose command produces in res what it produced for the Update
\* that was the previous command (a deterministic command updated twice in a row).
SameAsLastUpdate(res) ==
    {i \in DOMAIN res :
        /\ log # <<>>
        /\ log[1].val.kind = "Update"
        /\ \E n \in 1..Len(log) :
              log[n].kind = "exec" /\ log[n].snap = i /\ log[n].val = res[i]}

\* A line that parses to Script::Run(target) or Script::Update(target).
Targets(kind, target) == {script \in Scripts(kind) : script.arg = target}

CmdRun(target) ==
    /\ NoEdit
    /\ pc = "prompt"
    /\ \E script \in Targets("Run", target), res \in ResultsFor(snaps, AllSnaps) :
          LET r == execute_run(snaps, visible, cursor, script.arg, res)
          IN  Commit(script, r.snaps, <<Ev("same_as_last_update", 0, SameAsLastUpdate(res))>> \o r.log,
                     "prompt")
    /\ ViewUnchanged

CmdRunSelected == CmdRun("Selected")
CmdRunAll == CmdRun("All")

CmdShow ==
    /\ NoEdit
    /\ pc = "prompt"
    /\ \E script \in Scripts("Show") :
          Commit(script, snaps, execute_show(snaps, visible, cursor, script.arg), "prompt")
    /\ ViewUnchanged

CmdUpdate(target) ==
    /\ NoEdit
    /\ pc = "prompt"
    /\ \E script \in Targets("Update", target), res \in ResultsFor(snaps, AllSnaps) :
          LET r == execute_update(snaps, visible, cursor, script.arg, res, emptyIsNone)
          IN  Commit(script, r.snaps, <<Ev("same_as_last_update", 0, SameAsLastUpdate(res))>> \o r.log,
                     "prompt")
    /\ ViewUnchanged

CmdUpdateSelected == CmdUpdate("Selected")
CmdUpdateAll == CmdUpdate("All")

\* Faulty variant: the Err arm also resets the view.
CmdParseErrorClearingFilters ==
    /\ NoEdit
    /\ pc = "prompt"
    /\ \E error \in ParseErrors :
          /\ filters' = clear_filters(snaps).filters
          /\ visible' = clear_filters(snaps).visible
          /\ cursor' = clear_filters(snaps).cursor
          /\ Commit(error, snaps, <<Suspend, Writeln(error.message), Restore>>, "prompt")

\* The Err arm of Context::repl.
CmdParseError ==
    /\ NoEdit
    /\ pc = "prompt"
    /\ \E error \in ParseErrors :
          Commit(error, snaps, <<Suspend, Writeln(error.message), Restore>>, "prompt")
    /\ ViewUnchanged

(***************************************************************************)
(* The same handlers when a collaborator fails: cmd::execute cannot spawn  *)
(* the shell for one snapshot, or the store refuses a write.               *)
(***************************************************************************)
\* Fresh results of which one is Err(ExecutionError).
SpawnFailures(ss) ==
    {[res EXCEPT ![i] = ExecutionError] :
        res \in ResultsFor(ss, 1..Len(ss)), i \in 1..Len(ss)}

\* Err(error) of DataManager::persist_snapshot_data / persist_metadata.
StoreError == [message |-> "Unable to write to the store"]
IsWrite(e) == e.kind \in {"persist_data", "persist_metadata"}

\* The events lg of a handler when the store refuses its n-th event, a write.
StoreFailure(lg, n) == [lg EXCEPT ![n] = unwrap_log(lg[n].snap, StoreError)]

CmdRunSpawnFails ==
    /\ NoEdit
    /\ pc = "prompt"
    /\ \E script \in Scripts("Run"), res \in SpawnFailures(snaps) :
          LET r == execute_run(snaps, visible, cursor, script.arg, res)
          IN  /\ \E n \in 1..Len(r.log) : r.log[n].kind = "unwrap_log"
              /\ Commit(script, r.snaps, r.log, "prompt")
    /\ ViewUnchanged

CmdUpdateSpawnFails ==
    /\ NoEdit
    /\ pc = "prompt"
    /\ \E script \in Scripts("Update"), res \in SpawnFailures(snaps) :
          LET r == execute_update(snaps, visible, cursor, script.arg, res, emptyIsNone)
          IN  /\ \E n \in 1..Len(r.log) : r.log[n].kind = "unwrap_log"
              /\ Commit(script, r.snaps, r.log, "prompt")
    /\ ViewUnchanged

CmdUpdateStoreFails ==
    /\ NoEdit
    /\ pc = "prompt"
    /\ \E script \in Scripts("Update"), res \in ResultsFor(snaps, AllSnaps) :
          LET r == execute_update(snaps, visible, cursor, script.arg, res, emptyIsNone)
          IN  \E n \in 1..Len(r.log) :
                  /\ IsWrite(r.log[n])
                  /\ Commit(script, r.snaps, StoreFailure(r.log, n), "prompt")
    /\ ViewUnchanged

CmdEditStoreFails ==
    /\ pc = "prompt"
    /\ edits < MaxEdits
    /\ edits' = edits + 1
    /\ \E script \in Scripts("Edit"), edit \in EditResults :
          LET r == execute_edit(snaps, visible, cursor, edit)
          IN  \E n \in 1..Len(r.log) :
                  /\ IsWrite(r.log[n])
                  /\ Commit(script, r.snaps, StoreFailure(r.log, n), "prompt")
    /\ ViewUnchanged

(***************************************************************************)
(* The add subcommand, Context::add.  With the yes flag it is one step;    *)
(* without it the snapshot is previewed and binary_qestion reads standard  *)
(* input line by line, one step per line read.                             *)
(***************************************************************************)
AddNames == {None, Some("New Name")}
AddResults == Results("c2") \cup {ExecutionError}

\* add --yes
AddYes ==
    /\ NoEdit
    /\ pc = "cli"
    /\ \E name \in AddNames, snap \in AddResults, random \in RandomNames :
          LET args == AddArgs("c2", name, TRUE)
              r == add_save(snaps, args, snap, EditErr(""), random, emptyIsNone)
          IN  IF IsErr(snap)
              THEN Effects(Ok("Add", args), snaps, <<unwrap_log(0, snap)>>, "exit")
              ELSE Effects(Ok("Add", args), r.snaps, <<Ev("exec", 0, snap)>> \o r.log, "exit")
    /\ UNCHANGED stdin
    /\ ViewUnchanged

\* add without the flag, up to the first question.
AddAsk ==
    /\ NoEdit
    /\ pc = "cli"
    /\ \E name \in AddNames, snap \in AddResults :
          LET args == AddArgs("c2", name, FALSE)
          IN  IF IsErr(snap)
              THEN Effects(Ok("Add", args), snaps, <<unwrap_log(0, snap)>>, "exit")
              ELSE Effects(Ok("Add", args), snaps,
                           <<Ev("exec", 0, snap), Ev("snap_preview", 0, snap),
                             Ev("prompt", 0, 0)>>,
                           "asking")
    /\ UNCHANGED stdin
    /\ ViewUnchanged

\* One iteration of binary_qestion, and the rest of add when it returns.  The
\* question is printed again for a line that is no answer; the log keeps the
\* parity of the number of questions printed.
AskLine ==
    /\ NoEdit
    /\ pc = "asking"
    /\ LET input == log[1].val
           args == input.arg
           snap == log[2].val
           before == SubSeq(log, 2, 3)
           read == read_line(stdin)
           answer == binary_qestion(read.line)
           said == before \o <<Ev("read_line", 0, read.line)>>
       IN  /\ stdin' = read.rest
           /\ IF answer = None
              THEN Effects(input, snaps,
                           said \o <<Ev("prompt", 0, 1 - log[Len(log)].val)>>, "asking")
              ELSE IF answer = Some(FALSE)
              THEN Effects(input, snaps, said \o <<Ev("answer", 0, FALSE)>>, "exit")
              ELSE \E edit \in EditResults, random \in RandomNames :
                      LET r == add_save(snaps, args, snap, edit, random, emptyIsNone)
                      IN  Effects(input, r.snaps,
                                  said \o <<Ev("answer", 0, TRUE)>> \o r.log, "exit")
    /\ ViewUnchanged

Next ==
    \/ StartRepl \/ RunSubcommand \/ MainRun
    \/ Up \/ Down \/ QuitKey
    \/ CmdQuit \/ CmdHelp \/ CmdEdit \/ CmdClear \/ CmdFilter
    \/ CmdRunSelected \/ CmdRunAll \/ CmdShow \/ CmdUpdateSelected \/ CmdUpdateAll
    \/ CmdParseError

Spec == Init /\ [][Next]_vars

\* The session with collaborators that may fail.
NextFail ==
    \/ StartRepl \/ Down \/ CmdQuit \/ CmdEdit \/ CmdRunSelected \/ CmdUpdateAll
    \/ CmdRunSpawnFails \/ CmdUpdateSpawnFails \/ CmdUpdateStoreFails \/ CmdEditStoreFails

SpecFail == Init /\ [][NextFail]_vars

\* The add subcommand on a store of one snapshot, with any standard input.  The
\* process takes its next step whenever it has one.
InitAdd ==
    /\ Loaded(<<Snapshot("b", "c3", None, <<"t">>, Some(0), None, None)>>, TRUE)
    /\ stdin \in Streams

NextAdd == AddYes \/ AddAsk \/ AskLine

SpecAdd == InitAdd /\ [][NextAdd]_vars /\ WF_vars(NextAdd)

\* The reconciliation engine alone, on a snapshot with any stored content.
NextEngine == StartRepl \/ CmdRunSelected \/ CmdUpdateSelected

SpecEngine == InitEngine /\ [][NextEngine]_vars

(***************************************************************************)
(* Reading the log of the last handler.                                    *)
(***************************************************************************)
InputOf(lg) == IF lg = <<>> THEN Err("") ELSE lg[1].val
IsRun(lg) == InputOf(lg).ok /\ InputOf(lg).kind \in {"Run", "RunSubcommand", "MainRun"}
IsReplRun(lg) == InputOf(lg).ok /\ InputOf(lg).kind = "Run"
IsUpdate(lg) == InputOf(lg).ok /\ InputOf(lg).kind = "Update"
IsParseError(lg) == lg # <<>> /\ ~lg[1].val.ok

Has(lg, k) == \E n \in 1..Len(lg) : lg[n].kind = k
Positions(lg, k, i) == {n \in 1..Len(lg) : lg[n].kind = k /\ lg[n].snap = i}
Value(lg, k, i) == lg[CHOOSE n \in Positions(lg, k, i) : TRUE].val
Executed(lg) == {i \in 1..Len(snaps) : Positions(lg, "exec", i) # {}}
ExecOrder(lg) ==
    LET execs == SelectSeq(lg, LAMBDA e : e.kind = "exec")
    IN  [n \in 1..Len(execs) |-> execs[n].snap]
Repeated(lg) == Value(lg, "same_as_last_update", 0) \cap Executed(lg)

\* The bytes of a stored stream, an absent stream holding none.
StoredBody(blob) == IF blob = None THEN <<>> ELSE blob[1].body

\* The fresh result r equals what snapshot s stores.
SameAsStored(s, r) ==
    /\ r.stdout = StoredBody(s.stdout)
    /\ r.stderr = StoredBody(s.stderr)
    /\ r.code = s.exit_code

Verdict(passed) == IF passed THEN "Passed" ELSE "Failed"

(***************************************************************************)
(* C1: run_snapshot returns true and sets status to Passed exactly when    *)
(* the fresh stdout and stderr bytes equal the stored bodies and the fresh *)
(* exit code equals the stored one as optional values; otherwise it        *)
(* returns false and sets status to Failed.                                *)
(***************************************************************************)
C1_RunVerdict ==
    \A i \in 1..Len(snaps) :
        Positions(log, "run_ret", i) # {} =>
            /\ Value(log, "run_ret", i) = SameAsStored(snaps[i], Value(log, "exec", i))
            /\ snaps[i].status = Verdict(SameAsStored(snaps[i], Value(log, "exec", i)))

\* A run that fails on the exit code alone: no stored code, a fresh code.
C1_Witness ==
    \E i \in 1..Len(snaps) :
        /\ Positions(log, "run_ret", i) # {}
        /\ Value(log, "run_ret", i) = FALSE
        /\ snaps[i].status = "Failed"
        /\ Value(log, "exec", i).stdout = StoredBody(snaps[i].stdout)
        /\ Value(log, "exec", i).stderr = StoredBody(snaps[i].stderr)
        /\ snaps[i].exit_code = None
        /\ Value(log, "exec", i).code # None

(***************************************************************************)
(* C2: a Run operation (Run Selected, Run All, the run subcommand),        *)
(* passing or failing, changes no snapshot's cmd, name, description, tags, *)
(* exit_code, stdout or stderr, and writes nothing to the store.           *)
(***************************************************************************)
C2_RunFrame ==
    [][IsRun(log') =>
          /\ Len(snaps') = Len(snaps)
          /\ \A i \in 1..Len(snaps) :
                /\ snaps'[i].cmd = snaps[i].cmd
                /\ Meta(snaps'[i]) = Meta(snaps[i])
                /\ Content(snaps'[i]) = Content(snaps[i])
          /\ store' = store
          /\ ~Has(log', "persist_data")
          /\ ~Has(log', "persist_metadata")]_vars

\* A failing run in the session.
C2_Witness ==
    /\ IsReplRun(log)
    /\ Has(log, "failure")
    /\ \E i \in Executed(log) : snaps[i].status = "Failed" /\ ~Value(log, "run_ret", i)

(***************************************************************************)
(* C3: a multi-snapshot run reports success exactly when every snapshot of *)
(* the view passes, and it runs every snapshot of the view once, in view   *)
(* order, recomputing its status, also after a failure.                    *)
(***************************************************************************)
AllPass(lg, S) == \A i \in S : SameAsStored(snaps[i], Value(lg, "exec", i))
Range(seq) == {seq[k] : k \in 1..Len(seq)}

C3_RunViewAggregates ==
    /\ (IsReplRun(log) /\ InputOf(log).arg = "All") =>
          /\ ExecOrder(log) = visible
          /\ Has(log, "success") = AllPass(log, Range(visible))
          /\ Has(log, "failure") = ~AllPass(log, Range(visible))
          /\ \A i \in Range(visible) :
                snaps[i].status = Verdict(SameAsStored(snaps[i], Value(log, "exec", i)))
    /\ (InputOf(log).ok /\ InputOf(log).kind = "RunSubcommand") =>
          /\ ExecOrder(log) = [i \in 1..Len(snaps) |-> i]
          /\ Has(log, "success") = AllPass(log, 1..Len(snaps))
          /\ Value(log, "return", 0) = AllPass(log, 1..Len(snaps))
          /\ \A i \in 1..Len(snaps) :
                snaps[i].status = Verdict(SameAsStored(snaps[i], Value(log, "exec", i)))
    /\ (InputOf(log).ok /\ InputOf(log).kind = "MainRun") =>
          /\ ExecOrder(log) = [i \in 1..Len(snaps) |-> i]
          /\ Has(log, "success") =
                \A i \in 1..Len(snaps) :
                    Value(log, "exec", i).stdout = StoredBody(snaps[i].stdout)

\* Run All over two snapshots: the first fails, the second is run and passes.
C3_Witness ==
    /\ IsReplRun(log) /\ InputOf(log).arg = "All"
    /\ Len(visible) = 2
    /\ ExecOrder(log) = visible
    /\ snaps[visible[1]].status = "Failed"
    /\ snaps[visible[2]].status = "Passed"
    /\ Has(log, "failure")

(***************************************************************************)
(* C4: update_snapshot replaces each of exit_code, stdout and stderr by    *)
(* the fresh value where it differs from it, leaves the fields that do not *)
(* differ and cmd, name, description and tags as they were, and returns    *)
(* true exactly when one of the three fields was replaced.                 *)
(***************************************************************************)
\* The stored stream new holds the fresh bytes body under the snapshot's name.
HoldsFresh(new, body, name, ext) ==
    /\ StoredBody(new) = body
    /\ new # None => new[1].name = name /\ new[1].extension = ext

C4_UpdateFieldWise ==
    [][IsUpdate(log') =>
          \A i \in Executed(log') :
              LET old == snaps[i]
                  new == snaps'[i]
                  r == Value(log', "exec", i)
              IN  /\ new.exit_code = r.code
                  /\ HoldsFresh(new.stdout, r.stdout, old.name, ".out")
                  /\ HoldsFresh(new.stderr, r.stderr, old.name, ".err")
                  /\ new.cmd = old.cmd
                  /\ new.name = old.name
                  /\ new.description = old.description
                  /\ new.tags = old.tags
                  /\ Value(log', "update_ret", i) =
                        (\/ new.exit_code # old.exit_code
                         \/ new.stdout # old.stdout
                         \/ new.stderr # old.stderr)]_vars

\* An update that replaced a stored stderr by other bytes and returned true.
C4_Witness ==
    /\ IsUpdate(log)
    /\ \E i \in Executed(log) :
          /\ Value(log, "update_ret", i) = TRUE
          /\ Has(log, "persist_data")
          /\ store.data[i].stderr = snaps[i].stderr
          /\ snaps[i].stderr # None
          /\ snaps[i].stderr[1].body = Value(log, "exec", i).stderr
          /\ Value(log, "exec", i).stderr # <<>>

(***************************************************************************)
(* C5: Update is idempotent.  When the command produces what it produced   *)
(* for the Update just before, the second Update returns no change, leaves *)
(* the snapshot as the first left it, and persists nothing.                *)
(***************************************************************************)
C5_UpdateIdempotent ==
    [][IsUpdate(log') =>
          \A i \in Repeated(log') :
              /\ Value(log', "update_ret", i) = FALSE
              /\ snaps'[i] = snaps[i]
              /\ Positions(log', "persist_data", i) = {}
              /\ Executed(log') \subseteq Repeated(log') =>
                    /\ ~Has(log', "persist_metadata")
                    /\ store' = store]_vars

\* A second Update in a row with the same fresh result, which had nothing to do.
C5_Witness ==
    /\ IsUpdate(log)
    /\ \E i \in Repeated(log) :
          /\ Value(log, "update_ret", i) = FALSE
          /\ Value(log, "exec", i).stdout # <<>>
    /\ \E n \in 1..Len(log) : log[n] = Writeln("Nothing to do.")

(***************************************************************************)
(* C6: when the command produces what it produced for the Update just      *)
(* before, a Run of the snapshot reports no mismatch and leaves its status *)
(* Passed, whatever the snapshot stored before the Update.                 *)
(***************************************************************************)
C6_RunAfterUpdatePasses ==
    IsReplRun(log) =>
        \A i \in Repeated(log) :
            /\ Value(log, "run_ret", i) = TRUE
            /\ snaps[i].status = "Passed"
            /\ Positions(log, "diff", i) = {}

\* A passing Run right after an Update that left no stream and no exit code.
C6_Witness ==
    /\ IsReplRun(log)
    /\ \E i \in Repeated(log) :
          /\ Value(log, "run_ret", i) = TRUE
          /\ snaps[i].exit_code = None
          /\ snaps[i].stdout = None
          /\ snaps[i].stderr # None

(***************************************************************************)
(* C7: the status of a snapshot reflects the latest reconciliation on it.  *)
(* An Update leaves it Passed, changed or not; a Run leaves it Passed or   *)
(* Failed as its verdict says; every other operation (edit, show, filter,  *)
(* clear, cursor movement, help, parse error, quit) leaves it as it was.   *)
(***************************************************************************)
C7_StatusFollowsReconciliation ==
    [][\A i \in 1..Len(snaps) :
          IF Positions(log', "update_ret", i) # {}
          THEN snaps'[i].status = "Passed"
          ELSE IF Positions(log', "run_ret", i) # {}
               THEN snaps'[i].status = Verdict(Value(log', "run_ret", i))
               ELSE snaps'[i].status = snaps[i].status]_vars

\* An edit that changed a snapshot whose latest Run failed: it is still Failed.
C7_Witness ==
    /\ InputOf(log).ok /\ InputOf(log).kind = "Edit"
    /\ \E n \in 1..Len(log) : log[n] = Writeln("Updated.")
    /\ \E i \in 1..Len(snaps) :
          /\ Positions(log, "editor", i) # {}
          /\ snaps[i].status = "Failed"

(***************************************************************************)
(* C8: in a Run an absent stored stream behaves as an empty blob.  With no *)
(* stored stdout (or stderr) the snapshot passes when the command writes   *)
(* no byte to that stream and the rest matches, fails when it writes any,  *)
(* and the diff of that stream is then taken against the empty blob.       *)
(***************************************************************************)
AbsentAsEmpty(i, stream, stored, fresh, rest_eq) ==
    stored = None =>
        /\ (fresh = <<>> /\ rest_eq) => Value(log, "run_ret", i) = TRUE
        /\ fresh = <<>> =>
              \A n \in Positions(log, "diff", i) : log[n].val[1] # stream
        /\ fresh # <<>> =>
              /\ Value(log, "run_ret", i) = FALSE
              /\ snaps[i].status = "Failed"
              /\ \E n \in Positions(log, "diff", i) : log[n].val = <<stream, <<>>, fresh>>

C8_AbsentStreamIsEmpty ==
    \A i \in 1..Len(snaps) :
        Positions(log, "run_ret", i) # {} =>
            LET r == Value(log, "exec", i)
                s == snaps[i]
            IN  /\ AbsentAsEmpty(i, "stdout", s.stdout, r.stdout,
                                 r.stderr = StoredBody(s.stderr) /\ r.code = s.exit_code)
                /\ AbsentAsEmpty(i, "stderr", s.stderr, r.stderr,
                                 r.stdout = StoredBody(s.stdout) /\ r.code = s.exit_code)

\* A Run of a snapshot without stored stdout whose command wrote bytes to it.
C8_Witness ==
    /\ IsReplRun(log)
    /\ \E i \in Executed(log) :
          /\ snaps[i].stdout = None
          /\ Value(log, "exec", i).stdout # <<>>
          /\ Value(log, "exec", i).stderr = StoredBody(snaps[i].stderr)
          /\ Value(log, "exec", i).code = snaps[i].exit_code
          /\ \E n \in Positions(log, "diff", i) : log[n].val[2] = <<>>

(***************************************************************************)
(* C9: at most one mutable borrow of a snapshot is outstanding at a time,  *)
(* persist_metadata is invoked with no mutable borrow outstanding, every   *)
(* handler returns with all its borrows released, and no handler panics on *)
(* a double borrow.                                                        *)
(***************************************************************************)
C9_BorrowDiscipline ==
    /\ pc # "panicked"
    /\ ~Has(log, "panic")
    /\ \A n \in 1..Len(log) :
          /\ log[n].kind \in {"borrow_mut", "borrow"} =>
                log[n].snap \notin Outstanding(log, n - 1)
          /\ log[n].kind = "persist_metadata" => Outstanding(log, n - 1) = {}
    /\ Outstanding(log, Len(log)) = {}

\* Update All that changed two snapshots, each borrowed and released in turn,
\* and then persisted the metadata.
C9_Witness ==
    /\ IsUpdate(log) /\ InputOf(log).arg = "All"
    /\ \E i, j \in 1..Len(snaps) :
          /\ i # j
          /\ Positions(log, "borrow_mut", i) # {}
          /\ Positions(log, "borrow_mut", j) # {}
          /\ Positions(log, "persist_data", i) # {}
          /\ Positions(log, "persist_data", j) # {}
    /\ Has(log, "persist_metadata")

(***************************************************************************)
(* C10: a line that fails to parse changes no state.  The message of the   *)
(* error is written between suspend and restore and nothing else happens:  *)
(* no command is executed, no snapshot and no view state (filters, visible *)
(* sequence, cursor) changes, nothing is persisted, and the loop is back   *)
(* at the prompt.                                                          *)
(***************************************************************************)
C10_ParseErrorChangesNothing ==
    [][IsParseError(log') =>
          /\ snaps' = snaps
          /\ filters' = filters
          /\ visible' = visible
          /\ cursor' = cursor
          /\ store' = store
          /\ edits' = edits
          /\ pc' = "prompt"
          /\ terminal' = "restored"
          /\ Len(log') = 4
          /\ log'[2] = Suspend
          /\ log'[3] = Writeln(log'[1].val.message)
          /\ log'[4] = Restore]_vars

\* A parse error typed while a filter is set and a snapshot has failed.
C10_Witness ==
    /\ IsParseError(log)
    /\ filters # <<>>
    /\ \E i \in 1..Len(snaps) : snaps[i].status = "Failed"
    /\ InputOf(log).message = "unknown filter key"

(***************************************************************************)
(* C11: when the subprocess cannot be spawned during an interactive Run or *)
(* Update, or a store write fails during an interactive Update or Edit,    *)
(* the error is reported, only that command is aborted, and the loop is at *)
(* the next prompt with the terminal restored.                             *)
(***************************************************************************)
C11_FailureAbortsOnlyTheCommand ==
    Has(log, "unwrap_log") =>
        /\ pc = "prompt"
        /\ terminal = "restored"

(***************************************************************************)
(* C12: every snapshot name of the collection is in normalized form and no *)
(* two snapshots share a name, whatever was added or edited.               *)
(***************************************************************************)
C12_NamesNormalizedUnique ==
    \A i \in 1..Len(snaps) :
        /\ normalize_name(snaps[i].name) = snaps[i].name
        /\ \A j \in 1..Len(snaps) : snaps[i].name = snaps[j].name => i = j

(***************************************************************************)
(* C13: a metadata edit applies the name, description and tags the editor  *)
(* returns.  When one of the three differs from the stored value, tags     *)
(* alone included, the snapshot takes the new values, the edit reports a   *)
(* change and the metadata is persisted; when none differs nothing changes *)
(* and nothing is persisted.                                               *)
(***************************************************************************)
IsEdit(lg) == InputOf(lg).ok /\ InputOf(lg).kind = "Edit"

C13_EditAppliesAllThree ==
    [][IsEdit(log') =>
          \A i \in 1..Len(snaps) :
              (Positions(log', "editor", i) # {} /\ Value(log', "editor", i).ok) =>
                  LET edit == Value(log', "editor", i)
                      old == snaps[i]
                      new == snaps'[i]
                      name == IF edit.name # None THEN edit.name[1] ELSE old.name
                      differs == \/ name # old.name
                                 \/ edit.description # old.description
                                 \/ edit.tags # old.tags
                  IN  IF differs
                      THEN /\ new.name = name
                           /\ new.description = edit.description
                           /\ new.tags = edit.tags
                           /\ \E n \in 1..Len(log') : log'[n] = Writeln("Updated.")
                           /\ Has(log', "persist_metadata")
                           /\ store'.meta = MetaIndex(snaps')
                      ELSE /\ snaps' = snaps
                           /\ ~Has(log', "persist_metadata")
                           /\ store' = store]_vars

(***************************************************************************)
(* C14: a failure of the editor never ends the program.  In an interactive *)
(* edit the snapshot is left as it was, the message of the error is        *)
(* written and the metadata is not persisted; in add the snapshot is still *)
(* stored, under an auto-generated name, without description and tags.     *)
(***************************************************************************)
IsAdd(lg) == InputOf(lg).ok /\ InputOf(lg).kind = "Add"
EditorFailed(lg) == \E n \in 1..Len(lg) : lg[n].kind = "editor" /\ ~lg[n].val.ok

C14_EditorFailureDegrades ==
    [][EditorFailed(log') =>
          /\ pc' \notin {"aborted", "panicked"}
          /\ IsEdit(log') =>
                /\ snaps' = snaps
                /\ store' = store
                /\ ~Has(log', "persist_metadata")
                /\ \E n \in 1..Len(log') :
                      log'[n].kind = "writeln" /\ log'[n].val = "editor failed"
                /\ pc' = "prompt"
          /\ IsAdd(log') =>
                /\ pc' = "exit"
                /\ Len(snaps') = Len(snaps) + 1
                /\ snaps'[Len(snaps')].name \in RandomNames
                /\ snaps'[Len(snaps')].description = None
                /\ snaps'[Len(snaps')].tags = <<>>
                /\ store' = StoreOf(snaps')]_vars

(***************************************************************************)
(* C20: binary_qestion returns only on a recognized answer, true exactly   *)
(* for y, ye and yes and false exactly for n and no, after trimming and    *)
(* lower-casing; any other line, the empty one read at end of input        *)
(* included, makes it ask again; it returns in the end on every input; and *)
(* add stores a snapshot exactly when the yes flag is set or the answer    *)
(* was true.                                                               *)
(***************************************************************************)
MeansYes == {<<"y", "\n">>, <<"Y", "e", "s", "\n">>, <<" ", "y", "e", " ", "\n">>}
MeansNo == {<<"n", "\n">>, <<"N", "O">>}

C20_Answers ==
    IsAdd(log) =>
        /\ \A n \in 2..Len(log) :
              /\ log[n].kind = "answer" =>
                    /\ log[n].val = TRUE <=> log[n - 1].val \in MeansYes
                    /\ log[n].val = FALSE <=> log[n - 1].val \in MeansNo
              /\ (log[n].kind = "prompt" /\ log[n - 1].kind = "read_line") =>
                    log[n - 1].val \notin MeansYes \cup MeansNo
        /\ pc = "exit" =>
              (Has(log, "add_snapshot") <=>
                  \/ InputOf(log).arg.yes
                  \/ \E n \in 1..Len(log) : log[n].kind = "answer" /\ log[n].val = TRUE)

C20_AskReturns ==
    /\ []C20_Answers
    /\ (pc = "asking") ~> (pc # "asking")

(***************************************************************************)
(* C15: the loop ends exactly on the quit key (or end of input) and on a   *)
(* line that parses to Quit.  Every other input is followed by another     *)
(* prompt.  On exit the terminal is suspended once, and no prompt follows. *)
(***************************************************************************)
IsQuit(lg) == InputOf(lg).ok /\ InputOf(lg).kind \in {"Quit", "QuitKey"}

C15_LoopEndsOnQuitOnly ==
    [][/\ pc # "exit"
       /\ pc = "prompt" =>
             IF IsQuit(log')
             THEN /\ pc' = "exit"
                  /\ log' = <<log'[1], Suspend>>
                  /\ terminal' = "suspended"
             ELSE pc' = "prompt"]_vars

(***************************************************************************)
(* C16: Update persists what changed, in a fixed order.  The content of a  *)
(* snapshot is persisted exactly when its update returned changed; the     *)
(* metadata index is persisted once, after all content writes, exactly     *)
(* when a snapshot changed; when none changed "Nothing to do." is written  *)
(* and the store is not written; the count reported is the number of       *)
(* changed snapshots.                                                      *)
(***************************************************************************)
Changed(lg) == {i \in Executed(lg) : Value(lg, "update_ret", i) = TRUE}
Wrote(lg, message) == \E n \in 1..Len(lg) : lg[n].kind = "writeln" /\ lg[n].val = message
WritesOf(lg) == {n \in 1..Len(lg) : lg[n].kind \in {"persist_data", "persist_metadata"}}

C16_UpdatePersistsWhatChanged ==
    (IsUpdate(log) /\ Executed(log) # {}) =>
        /\ \A i \in Executed(log) :
              /\ Cardinality(Positions(log, "persist_data", i)) =
                    IF i \in Changed(log) THEN 1 ELSE 0
              /\ i \in Changed(log) =>
                    /\ Value(log, "persist_data", i) = Content(snaps[i])
                    /\ store.data[i] = Content(snaps[i])
        /\ Cardinality(Positions(log, "persist_metadata", 0)) =
              IF Changed(log) # {} THEN 1 ELSE 0
        /\ Changed(log) # {} =>
              /\ \A n \in WritesOf(log) :
                    n <= CHOOSE k \in Positions(log, "persist_metadata", 0) : TRUE
              /\ Value(log, "persist_metadata", 0) = MetaIndex(snaps)
              /\ store.meta = MetaIndex(snaps)
              /\ Wrote(log, IF Cardinality(Changed(log)) = 1 THEN "Updated 1 snapshot."
                            ELSE UpdatedMessage(Cardinality(Changed(log))))
        /\ Changed(log) = {} =>
              /\ Wrote(log, "Nothing to do.")
              /\ WritesOf(log) = {}
        /\ Cardinality({n \in 1..Len(log) : log[n].kind = "writeln"}) = 1

\* Update All that changed both snapshots of the view.
C16_Witness ==
    /\ IsUpdate(log) /\ InputOf(log).arg = "All"
    /\ Cardinality(Changed(log)) = 2
    /\ Wrote(log, "Updated 2 snapshots.")
    /\ Cardinality(WritesOf(log)) = 3

(***************************************************************************)
(* C17: the report of a run is well formed.  A passing snapshot writes     *)
(* nothing.  A failing snapshot writes, in order, a top separator with its *)
(* name, its summary, a stdout diff section exactly when stdout differs, a *)
(* stderr diff section exactly when stderr differs, and a bottom           *)
(* separator; a failure on the exit code alone writes the summary and no   *)
(* diff section; no diff section stands outside a top/bottom pair.         *)
(***************************************************************************)
ReportOf(lg, i) ==
    SelectSeq(lg, LAMBDA e : e.snap = i /\ e.kind \in {"sep", "summary", "diff"})

DiffSection(stream, old, new) ==
    IF new # old
    THEN <<Ev("sep", 0, <<stream, "Middle">>), Ev("diff", 0, <<stream, old, new>>)>>
    ELSE <<>>

FailureReport(s, r) ==
    <<Ev("sep", 0, <<s.name, "Top">>),
      Ev("summary", 0, <<s.description, s.cmd, s.exit_code>>)>>
    \o DiffSection("stdout", StoredBody(s.stdout), r.stdout)
    \o DiffSection("stderr", StoredBody(s.stderr), r.stderr)
    \o <<Ev("sep", 0, <<"", "Bottom">>)>>

Unnumbered(report) == [n \in 1..Len(report) |-> [report[n] EXCEPT !.snap = 0]]

C17_RunReportWellFormed ==
    IsRun(log) =>
        \A i \in 1..Len(snaps) :
            IF Positions(log, "run_ret", i) = {}
            THEN ReportOf(log, i) = <<>>
            ELSE Unnumbered(ReportOf(log, i)) =
                    IF Value(log, "run_ret", i)
                    THEN <<>>
                    ELSE FailureReport(snaps[i], Value(log, "exec", i))

\* A run failing on the exit code alone: a frame with the summary, no diff.
C17_Witness ==
    /\ IsRun(log)
    /\ \E i \in Executed(log) :
          /\ ~Value(log, "run_ret", i)
          /\ Value(log, "exec", i).stdout = StoredBody(snaps[i].stdout)
          /\ Value(log, "exec", i).stderr = StoredBody(snaps[i].stderr)
          /\ Len(ReportOf(log, i)) = 3
          /\ Positions(log, "diff", i) = {}

(***************************************************************************)
(* C18: when the visible sequence is empty, a command aimed at the         *)
(* selection runs no subprocess, changes no snapshot and persists nothing: *)
(* Run Selected reports success, Update Selected writes "No snapshot to    *)
(* update.", Edit writes "No snapshot to edit.", Show Selected writes      *)
(* nothing.  Run All on the empty view reports success and Update All      *)
(* writes "Nothing to do.".                                                *)
(***************************************************************************)
\* What the handler did: its log without the input and the bookkeeping entry.
Handled(lg) ==
    SelectSeq(lg, LAMBDA e : e.kind \notin {"input", "same_as_last_update"})

OnEmptyView(input) ==
    CASE input.kind = "Run" -> <<Suspend, Ev("success", 0, <<>>), Restore>>
      [] input.kind = "Update" /\ input.arg = "Selected" ->
            <<Suspend, Writeln("No snapshot to update."), Restore>>
      [] input.kind = "Update" /\ input.arg = "All" ->
            <<Suspend, Writeln("Nothing to do."), Restore>>
      [] input.kind = "Edit" -> <<Suspend, Writeln("No snapshot to edit."), Restore>>
      [] OTHER -> <<Suspend, Restore>>

C18_EmptyViewDoesNothing ==
    [][(/\ pc = "prompt"
        /\ visible = <<>>
        /\ InputOf(log').ok
        /\ \/ InputOf(log').kind \in {"Run", "Update", "Edit"}
           \/ InputOf(log').kind = "Show" /\ InputOf(log').arg = "Selected") =>
          /\ snaps' = snaps
          /\ store' = store
          /\ ~Has(log', "exec")
          /\ ~Has(log', "editor")
          /\ Handled(log') = OnEmptyView(InputOf(log'))
          /\ pc' = "prompt"]_vars

\* Run Selected while a filter hides both snapshots.
C18_Witness ==
    /\ pc = "prompt"
    /\ visible = <<>>
    /\ Len(snaps) = 2
    /\ IsReplRun(log) /\ InputOf(log).arg = "Selected"
    /\ Handled(log) = <<Suspend, Ev("success", 0, <<>>), Restore>>

(***************************************************************************)
(* C19: the terminal protocol of the session.  Every handler that writes   *)
(* output (help, edit, run, show, update, the report of a parse error)     *)
(* suspends the terminal before its first write and restores it exactly    *)
(* once after its last write, on every path; the terminal is restored at   *)
(* every prompt; suspend and restore alternate through the session; the    *)
(* suspend on exit is followed by no restore.                              *)
(***************************************************************************)
TerminalCalls(lg) == SelectSeq(lg, LAMBDA e : e.kind \in {"suspend", "restore"})

IsOutput(e) ==
    e.kind \in {"writeln", "write_help", "sep", "summary", "diff", "boxed_write",
                "success", "failure"}

WritingHandler(lg) ==
    \/ ~InputOf(lg).ok
    \/ InputOf(lg).kind \in {"Help", "Edit", "Run", "Show", "Update"}

C19_TerminalProtocol ==
    [][/\ pc # "exit"
       /\ pc = "prompt" =>
             /\ terminal = "restored"
             /\ IF IsQuit(log')
                THEN /\ TerminalCalls(log') = <<Suspend>>
                     /\ terminal' = "suspended"
                     /\ pc' = "exit"
                ELSE /\ terminal' = "restored"
                     /\ IF WritingHandler(log')
                        THEN /\ TerminalCalls(log') = <<Suspend, Restore>>
                             /\ Head(Handled(log')) = Suspend
                             /\ log'[Len(log')] = Restore
                        ELSE /\ TerminalCalls(log') = <<>>
                             /\ \A n \in 1..Len(log') : ~IsOutput(log'[n])]_vars

====
